---- MODULE Spec2Model ----
(***************************************************************************)
(* Model of src/app.py: a Streamlit script that is re-run from top to      *)
(* bottom on every user interaction.  One run (Refresh) handles the        *)
(* sidebar widgets, calls the TTL-cached get_realtime_data(), and either   *)
(* computes and renders the premium or shows the "unavailable" message.    *)
(*                                                                         *)
(* Numbers.  Python floats are modelled by exact rationals                 *)
(* [num |-> n, den |-> d] with d > 0, kept in lowest terms.  Text is a     *)
(* sequence of one-character strings.  float() is modelled on the          *)
(* alphabet of sign, digits and the decimal point.                         *)
(***************************************************************************)
EXTENDS Integers, Sequences, FiniteSets, TLC

VARIABLES
    cache,      \* the st.cache_data entry of get_realtime_data
    netCalls,   \* number of requests.get calls issued so far
    lastResp,   \* what the most recent requests.get produced
    view        \* what the most recent run of the script did and showed

vars == <<cache, netCalls, lastResp, view>>

\* ------------------------------------------------------------------------
\* Bounds and program constants
\* ------------------------------------------------------------------------
MaxCalls == 2

TTL == 30

\* ------------------------------------------------------------------------
\* Rational arithmetic (the floats of the script)
\* ------------------------------------------------------------------------
Abs(n) == IF n < 0 THEN -n ELSE n

RECURSIVE GCD(_, _)
GCD(a, b) == IF b = 0 THEN a ELSE GCD(b, a % b)

Rat(n, d) ==
    LET g == GCD(Abs(n), Abs(d))
        s == IF d < 0 THEN -1 ELSE 1
    IN  [num |-> s * (n \div g), den |-> s * (d \div g)]

Zero == [num |-> 0, den |-> 1]

RatMul(a, b) ==
    LET g1 == GCD(Abs(a.num), b.den)
        g2 == GCD(Abs(b.num), a.den)
    IN  [num |-> (a.num \div g1) * (b.num \div g2),
         den |-> (a.den \div g2) * (b.den \div g1)]

\* only applied to b # Zero
RatDiv(a, b) ==
    RatMul(a, IF b.num < 0 THEN [num |-> -b.den, den |-> -b.num]
                           ELSE [num |-> b.den, den |-> b.num])

RatSub(a, b) ==
    LET g == GCD(a.den, b.den)
    IN  Rat(a.num * (b.den \div g) - b.num * (a.den \div g),
            (a.den \div g) * b.den)

RatGT(a, b) == a.num * b.den > b.num * a.den

\* ------------------------------------------------------------------------
\* Text: str.split(',') and float()
\* ------------------------------------------------------------------------
Digits == {"0", "1", "2", "3", "4", "5", "6", "7", "8", "9"}

DigitVal(c) ==
    CASE c = "0" -> 0 [] c = "1" -> 1 [] c = "2" -> 2 [] c = "3" -> 3
      [] c = "4" -> 4 [] c = "5" -> 5 [] c = "6" -> 6 [] c = "7" -> 7
      [] c = "8" -> 8 [] c = "9" -> 9

\* s.split(','): the fields between the commas; never an empty list
RECURSIVE Split(_)
Split(s) ==
    IF s = <<>> THEN << <<>> >>
    ELSE LET rest == Split(Tail(s))
         IN  IF Head(s) = ","
             THEN << <<>> >> \o rest
             ELSE << <<Head(s)>> \o rest[1] >> \o Tail(rest)

Unsigned(s) == IF s # <<>> /\ s[1] \in {"-", "+"} THEN Tail(s) ELSE s

\* float(s) returns (rather than raising ValueError)
IsFloat(s) ==
    LET b == Unsigned(s)
    IN  /\ \A i \in 1..Len(b) : b[i] \in Digits \cup {"."}
        /\ Cardinality({i \in 1..Len(b) : b[i] = "."}) <= 1
        /\ \E i \in 1..Len(b) : b[i] \in Digits

RECURSIVE Pow10(_)
Pow10(k) == IF k = 0 THEN 1 ELSE 10 * Pow10(k - 1)

RECURSIVE DigitsValue(_)
DigitsValue(s) ==
    IF s = <<>> THEN 0
    ELSE DigitsValue(SubSeq(s, 1, Len(s) - 1)) * 10 + DigitVal(s[Len(s)])

\* float(s), for s with IsFloat(s)
FloatOf(s) ==
    LET b    == Unsigned(s)
        dots == {i \in 1..Len(b) : b[i] = "."}
        frac == IF dots = {} THEN 0 ELSE Len(b) - (CHOOSE i \in dots : TRUE)
        ds   == SelectSeq(b, LAMBDA c : c \in Digits)
        sign == IF s[1] = "-" THEN -1 ELSE 1
    IN  Rat(sign * DigitsValue(ds), Pow10(frac))


\* ------------------------------------------------------------------------
\* The remote source: what requests.get can produce
\* ------------------------------------------------------------------------
\* A line of the response: whether re.search finds it, and its quoted content
NoLine == [present |-> FALSE, content |-> <<>>]

Line(s) == [present |-> TRUE, content |-> s]

XauContents ==
    { <<"3", "1", "1", "0", ".", "3", "5", ",", "9">>,   \* 3110.35,9
      <<"0", ".", "0", "0">>,                            \* 0.00
      <<"-", "1">>,                                      \* -1
      <<>> }                                             \* empty quotes

FxContents ==
    { <<"9", ",", "6", ".", "0">>,                       \* 9,6.0
      <<"9", ",", "0">>,                                 \* 9,0
      <<"9", ",", "-", "5">>,                            \* 9,-5
      <<"9", ",", "x">>,                                 \* 9,x
      <<"5">> }                                          \* 5 (one field)

XauLines == {NoLine} \cup {Line(s) : s \in XauContents}

FxLines == {NoLine} \cup {Line(s) : s \in FxContents}

NoResp == [kind |-> "none", xau |-> NoLine, fx |-> NoLine]

\* requests.get raises (timeout=5 exceeded, connection error) or returns text
Outcomes ==
    {[kind |-> k, xau |-> NoLine, fx |-> NoLine] : k \in {"timeout", "connection"}}
    \cup {[kind |-> "text", xau |-> x, fx |-> f] : x \in XauLines, f \in FxLines}

\* st.number_input(min_value=500.0, max_value=1000.0)
RefPrices == {500, 720, 780, 1000}

\* ------------------------------------------------------------------------
\* get_realtime_data (the body under the cache decorator)
\* ------------------------------------------------------------------------
ZeroQuote == [xau_price |-> Zero, usd_cny_rate |-> Zero]

\* the try block runs to its return statement
TryCompletes(resp) ==
    /\ resp.kind = "text"
    /\ resp.xau.present
    /\ IsFloat(Split(resp.xau.content)[1])
    /\ resp.fx.present
    /\ Len(Split(resp.fx.content)) >= 2
    /\ IsFloat(Split(resp.fx.content)[2])

\* variant: a field that cannot be read is replaced by 0 and the other kept
get_realtime_data_Defaults(resp) ==
    LET xf == Split(resp.xau.content)
        ff == Split(resp.fx.content)
        xok == resp.kind = "text" /\ resp.xau.present /\ IsFloat(xf[1])
        fok == resp.kind = "text" /\ resp.fx.present /\ Len(ff) >= 2
               /\ IsFloat(ff[2])
    IN  [failed |-> ~xok /\ ~fok,
         value  |-> [xau_price    |-> IF xok THEN FloatOf(xf[1]) ELSE Zero,
                     usd_cny_rate |-> IF fok THEN FloatOf(ff[2]) ELSE Zero]]

get_realtime_data(resp) ==
    IF TryCompletes(resp)
    THEN [failed |-> FALSE,
          value  |-> [xau_price    |-> FloatOf(Split(resp.xau.content)[1]),
                      usd_cny_rate |-> FloatOf(Split(resp.fx.content)[2])]]
    ELSE [failed |-> TRUE, value |-> ZeroQuote]

\* what the body returns for each thing the source can produce
Fetched == [resp \in Outcomes |-> get_realtime_data(resp)]

\* ------------------------------------------------------------------------
\* st.cache_data(ttl=30)
\* ------------------------------------------------------------------------
\* age: time units since the entry was stored, counted up to TTL
EmptyCache == [present |-> FALSE, value |-> ZeroQuote, age |-> 0]

\* variant: the entry never expires
CacheFresh_NoExpiry(c) == c.present

CacheFresh(c) == c.present /\ c.age < TTL

\* variant: a failed fetch is not stored
CacheAfterCall_SkipFailure(fetched) ==
    IF fetched.failed THEN EmptyCache
    ELSE [present |-> TRUE, value |-> fetched.value, age |-> 0]

\* the decorator stores whatever the body returned
CacheAfterCall(fetched) == [present |-> TRUE, value |-> fetched.value, age |-> 0]

\* variant: the button does not clear
ClearCache_Ignored(c, clear) == c

\* if st.button(...): st.cache_data.clear()
ClearCache(c, clear) == IF clear THEN EmptyCache ELSE c

\* ------------------------------------------------------------------------
\* The core computation and the band
\* ------------------------------------------------------------------------
GRAMS_PER_OUNCE == Rat(311035, 10000)

\* variant: the guard lets a zero price through
QuoteUsable_NonNegative(xau_price) == ~RatGT(Zero, xau_price)

QuoteUsable(xau_price) == RatGT(xau_price, Zero)

intl_gold_cny_g(xau_price, exchange_rate) ==
    RatDiv(RatMul(xau_price, exchange_rate), GRAMS_PER_OUNCE)

price_diff(ctf_price_input, cost) == RatSub(ctf_price_input, cost)

\* variant: the ratio is not scaled to a percentage
premium_rate_Fraction(diff, cost) == RatDiv(diff, cost)

\* only applied to cost # Zero; Python raises ZeroDivisionError otherwise
premium_rate(diff, cost) == RatMul(RatDiv(diff, cost), Rat(100, 1))

\* variant: the thresholds are inclusive
state_msg_Inclusive(premium) ==
    IF ~RatGT(Rat(30, 1), premium) THEN "High"
    ELSE IF ~RatGT(Rat(20, 1), premium) THEN "Moderate"
    ELSE "Low"

\* variant: the comparisons are the wrong way round
state_msg_Flipped(premium) ==
    IF RatGT(Rat(20, 1), premium) THEN "High"
    ELSE IF RatGT(Rat(30, 1), premium) THEN "Moderate"
    ELSE "Low"

state_msg(premium) ==
    IF RatGT(premium, Rat(30, 1)) THEN "High"
    ELSE IF RatGT(premium, Rat(20, 1)) THEN "Moderate"
    ELSE "Low"

\* ------------------------------------------------------------------------
\* One run of the script below the fetch
\* ------------------------------------------------------------------------
NoView ==
    [status |-> "init", cleared |-> FALSE, cacheAtStart |-> "empty",
     called |-> FALSE, failed |-> FALSE,
     xau_price |-> Zero, exchange_rate |-> Zero, ctf_price_input |-> Zero,
     division |-> <<>>, intl_gold_cny_g |-> <<>>, price_diff |-> <<>>,
     premium_rate |-> <<>>, state_msg |-> ""]

\* division: the divisor with which line 108 was reached, if it was
RunBody(run, quote, ctf) ==
    LET base == [run EXCEPT !.xau_price = quote.xau_price,
                            !.exchange_rate = quote.usd_cny_rate,
                            !.ctf_price_input = ctf]
        cost == intl_gold_cny_g(quote.xau_price, quote.usd_cny_rate)
        diff == price_diff(ctf, cost)
    IN  IF QuoteUsable(quote.xau_price)
        THEN IF cost = Zero
             THEN [base EXCEPT !.status = "fault",
                               !.division = <<cost>>,
                               !.intl_gold_cny_g = <<cost>>,
                               !.price_diff = <<diff>>]
             ELSE [base EXCEPT !.status = "rendered",
                               !.division = <<cost>>,
                               !.intl_gold_cny_g = <<cost>>,
                               !.price_diff = <<diff>>,
                               !.premium_rate = <<premium_rate(diff, cost)>>,
                               !.state_msg = state_msg(premium_rate(diff, cost))]
        ELSE [base EXCEPT !.status = "unavailable"]

\* ------------------------------------------------------------------------
\* Actions
\* ------------------------------------------------------------------------
Init ==
    /\ cache = EmptyCache
    /\ netCalls = 0
    /\ lastResp = NoResp
    /\ view = NoView

\* one time unit passes on the cache's timer
Tick ==
    /\ cache.present
    /\ cache.age < TTL
    /\ cache' = [cache EXCEPT !.age = @ + 1]
    /\ UNCHANGED <<netCalls, lastResp, view>>

\* one run of the script: sidebar, cached fetch, computation, display
Refresh(clear, ctf, resp) ==
    LET c0      == ClearCache(cache, clear)
        atStart == IF ~cache.present THEN "empty"
                   ELSE IF CacheFresh(cache) THEN "fresh" ELSE "expired"
        hit     == CacheFresh(c0)
        fetched == IF hit THEN [failed |-> FALSE, value |-> c0.value]
                   ELSE Fetched[resp]
        run     == [NoView EXCEPT !.cleared = clear,
                                  !.cacheAtStart = atStart,
                                  !.called = ~hit,
                                  !.failed = ~hit /\ fetched.failed]
    IN  /\ hit \/ netCalls < MaxCalls
        /\ cache' = IF hit THEN c0 ELSE CacheAfterCall(fetched)
        /\ netCalls' = IF hit THEN netCalls ELSE netCalls + 1
        /\ lastResp' = IF hit THEN lastResp ELSE resp
        /\ view' = RunBody(run, fetched.value, Rat(ctf, 1))

\* a request is made, and an outcome drawn, only when the lookup misses
Drawn(c) == IF CacheFresh(c) THEN {NoResp} ELSE Outcomes

Next ==
    \/ Tick
    \/ \E clear \in BOOLEAN, ctf \in RefPrices :
          \E resp \in Drawn(ClearCache(cache, clear)) : Refresh(clear, ctf, resp)

Spec == Init /\ [][Next]_vars

\* ------------------------------------------------------------------------
\* Properties
\* ------------------------------------------------------------------------
\* a step that is a run of the script (a Tick changes neither)
RunStep == view' # view \/ netCalls' # netCalls

NothingComputed ==
    /\ view.division = <<>>
    /\ view.intl_gold_cny_g = <<>>
    /\ view.price_diff = <<>>
    /\ view.premium_rate = <<>>
    /\ view.state_msg = ""

Positive(r) == r.num > 0

\* C1: whenever a run reaches the division of line 108, its divisor
\* intl_gold_cny_g is strictly positive.
C1_PositiveDivisor ==
    view.division # <<>> => Positive(view.division[1])

\* C2: a run whose fetch failed, or whose quote has unit_price <= 0, ends in
\* the unavailable state with none of the three numbers computed or shown.
C2_Unavailable ==
    (view.status # "init" /\ (view.failed \/ ~Positive(view.xau_price)))
        => view.status = "unavailable" /\ NothingComputed

\* a parsed quote with unit_price = 0 and a valid rate was shown as unavailable
C2_Witness ==
    /\ view.called /\ ~view.failed
    /\ view.xau_price = Zero /\ Positive(view.exchange_rate)
    /\ view.status = "unavailable"

\* C3: no run ends in an unhandled exception.
C3_NoFault == view.status # "fault"

\* C4: a run without a manual clear issues no request and returns the cached
\* quote unchanged while the entry is younger than TTL, and issues exactly one
\* request once the entry has expired (or there is none).
C4_OneCallPerWindow ==
    [][ (RunStep /\ ~view'.cleared) =>
          IF cache.present /\ cache.age < TTL
          THEN /\ netCalls' = netCalls
               /\ cache' = cache
               /\ view'.xau_price = cache.value.xau_price
               /\ view'.exchange_rate = cache.value.usd_cny_rate
          ELSE /\ netCalls' = netCalls + 1
               /\ cache'.present /\ cache'.age = 0 ]_vars

\* the second request was caused by expiry alone
C4_Witness ==
    /\ view.cacheAtStart = "expired" /\ ~view.cleared /\ view.called
    /\ netCalls = 2

\* C5: a run in which the clear button fired issues a request even when the
\* entry was inside its window, and an entry is replaced only in a run with
\* a manual clear or after TTL expiry, whatever the reference price.
C5_ClearForcesFetch ==
    [][ RunStep =>
          /\ view'.cleared =>
                /\ netCalls' = netCalls + 1
                /\ cache'.present /\ cache'.age = 0
                /\ view'.called
          /\ (cache.present /\ cache' # cache) =>
                (view'.cleared \/ cache.age >= TTL) ]_vars

\* a clear hit an entry that was still fresh, and a request was made
C5_Witness ==
    view.cleared /\ view.cacheAtStart = "fresh" /\ view.called

\* C6: in a rendered run with unit_price > 0 and exchange_rate > 0 the three
\* numbers satisfy cost * 31.1035 = price * rate with cost > 0,
\* reference - diff = cost, and premium * cost = diff * 100.
C6_Formulas ==
    (view.status = "rendered" /\ Positive(view.xau_price)
        /\ Positive(view.exchange_rate)) =>
        LET cost == view.intl_gold_cny_g[1]
            diff == view.price_diff[1]
            prem == view.premium_rate[1]
        IN  /\ Positive(cost)
            /\ RatMul(cost, Rat(311035, 10000))
                  = RatMul(view.xau_price, view.exchange_rate)
            /\ RatSub(view.ctf_price_input, diff) = cost
            /\ RatMul(prem, cost) = RatMul(diff, Rat(100, 1))

\* a rendered run with a positive quote and a reference below the cost
C6_Witness ==
    /\ view.status = "rendered"
    /\ Positive(view.xau_price) /\ Positive(view.exchange_rate)
    /\ view.price_diff[1].num < 0

\* C7: after a request, the quote is (field 0 of the commodity line,
\* field 1 of the currency line) when both lines are present and both fields
\* numeric; otherwise the fetch failed, the quote is (0, 0) and nothing is
\* computed.
C7_ParseOrFail ==
    view.called =>
        LET xf == Split(lastResp.xau.content)
            ff == Split(lastResp.fx.content)
        IN  IF /\ lastResp.kind = "text"
               /\ lastResp.xau.present /\ lastResp.fx.present
               /\ IsFloat(xf[1])
               /\ Len(ff) >= 2 /\ IsFloat(ff[2])
            THEN /\ ~view.failed
                 /\ view.xau_price = FloatOf(xf[1])
                 /\ view.exchange_rate = FloatOf(ff[2])
            ELSE /\ view.failed
                 /\ view.xau_price = Zero /\ view.exchange_rate = Zero
                 /\ view.status = "unavailable" /\ NothingComputed

\* the commodity line carried a positive price, the currency line lacked
\* field 1, and the fetch failed
C7_Witness ==
    /\ view.called /\ view.failed
    /\ lastResp.kind = "text"
    /\ lastResp.xau.present /\ IsFloat(Split(lastResp.xau.content)[1])
    /\ Positive(FloatOf(Split(lastResp.xau.content)[1]))
    /\ lastResp.fx.present /\ Len(Split(lastResp.fx.content)) = 1

\* C8: a rendered run shows exactly one band: High above 30, Moderate above
\* 20 and up to 30, Low up to 20.
C8_Bands ==
    view.status = "rendered" =>
        LET p == view.premium_rate[1]
        IN  /\ view.state_msg \in {"High", "Moderate", "Low"}
            /\ view.state_msg = "High" <=> p.num > 30 * p.den
            /\ view.state_msg = "Moderate"
                  <=> (p.num > 20 * p.den /\ p.num <= 30 * p.den)
            /\ view.state_msg = "Low" <=> p.num <= 20 * p.den

\* a premium of exactly 30 was shown as Moderate
C8_Witness ==
    /\ view.status = "rendered"
    /\ view.premium_rate[1] = [num |-> 30, den |-> 1]
    /\ view.state_msg = "Moderate"

Rank(band) == CASE band = "Low" -> 0 [] band = "Moderate" -> 1 [] band = "High" -> 2

BandFor(ref) ==
    LET cost == view.intl_gold_cny_g[1]
    IN  state_msg(premium_rate(price_diff(Rat(ref, 1), cost), cost))

\* C9: for the rendered quote with converted cost > 0, a higher reference
\* price never gives a lower band than the one shown, nor a lower one a
\* higher band, and the bands of any two reference prices are ordered alike.
C9_Monotone ==
    (view.status = "rendered" /\ Positive(view.intl_gold_cny_g[1])) =>
        /\ \A r \in RefPrices :
              /\ r * view.ctf_price_input.den >= view.ctf_price_input.num
                    => Rank(BandFor(r)) >= Rank(view.state_msg)
              /\ r * view.ctf_price_input.den <= view.ctf_price_input.num
                    => Rank(BandFor(r)) <= Rank(view.state_msg)
        /\ \A r1, r2 \in RefPrices :
              r1 <= r2 => Rank(BandFor(r1)) <= Rank(BandFor(r2))

\* the band shown is Low and a higher reference price gives a higher band
C9_Witness ==
    /\ view.status = "rendered" /\ Positive(view.intl_gold_cny_g[1])
    /\ view.state_msg = "Low"
    /\ \E r \in RefPrices :
          /\ r * view.ctf_price_input.den > view.ctf_price_input.num
          /\ BandFor(r) = "High"

\* C10: a failed fetch stores (0, 0) in the cache; while that entry is fresh
\* and no clear fires, runs stay unavailable and issue no request; a request
\* is issued again only after expiry or a manual clear.
C10_FailureCached ==
    [][ RunStep =>
          /\ view'.failed =>
                (cache'.present /\ cache'.value = ZeroQuote /\ cache'.age = 0)
          /\ (cache.present /\ cache.value = ZeroQuote /\ cache.age < TTL
                /\ ~view'.cleared) =>
                /\ netCalls' = netCalls
                /\ cache' = cache
                /\ view'.status = "unavailable"
          /\ (cache.present /\ netCalls' # netCalls) =>
                (view'.cleared \/ cache.age >= TTL) ]_vars

\* a run inside the window of a timed-out fetch was served from the cache
C10_Witness ==
    /\ lastResp.kind = "timeout"
    /\ view.cacheAtStart = "fresh" /\ ~view.called /\ ~view.cleared
    /\ cache.age > 0
    /\ view.status = "unavailable"

====
